---------------------------- MODULE Spec2Model ----------------------------
(***************************************************************************)
(* Model of VectorSorting.cpp (enhanced version): the bid loader, the      *)
(* three sorts, binary search, the benchmark export and the menu loop of   *)
(* main().                                                                 *)
(*                                                                         *)
(* Strings are sequences of character codes, compared as std::string       *)
(* compares them.  Vector indices are the code's 0-based indices; At(v, i) *)
(* reads v[i].  A double is a fixed-point integer in units of 1/Scale.     *)
(***************************************************************************)
EXTENDS Integers, Sequences, FiniteSets, TLC

VARIABLES
    bids,        \* main(): vector<Bid> bids
    bidHashMap,  \* main(): unordered_map<string, Bid> bidHashMap
    csvFile,     \* benchmark_results.csv on disk: [exists, lines]
    status,      \* the process: "running", "exited", "terminated", "overflow", "undefined"
    call,        \* the last operation carried out: [fn, arg, ret]
    hist,        \* history: the results file at program start and the data lines
                 \* handed to exportBenchmarkToCSV since
    lastLoad,    \* history: what the last loadBids returned
    ops          \* menu selections handled so far

vars == <<bids, bidHashMap, csvFile, status, call, hist, lastLoad, ops>>

---------------------------------------------------------------------------
(* Bounds of the model *)

MaxLen      == 4   \* longest vector handed to a sort or a search
MaxTitleLen == 1   \* longest title, in characters
StackLimit  == 8   \* quickSort frames the stack holds before it overflows
MaxAmtLen   == 3   \* longest amount text handed to strToDouble, in characters
MaxRows     == 2   \* most rows of a CSV file
MaxExports  == 3   \* most data lines appended to the results file
MaxOps      == 3   \* most menu selections of a run

---------------------------------------------------------------------------
(* Strings *)

TitleChars == {65, 97}          \* 'A', 'a'

RECURSIVE StringsUpTo(_, _)
StringsUpTo(chars, n) ==
    IF n = 0 THEN {<<>>}
    ELSE LET shorter == StringsUpTo(chars, n - 1)
         IN  shorter \cup {<<c>> \o s : c \in chars, s \in {t \in shorter : Len(t) = n - 1}}

Titles == StringsUpTo(TitleChars, MaxTitleLen)

\* std::string::compare: negative, zero or positive
RECURSIVE compare(_, _)
compare(a, b) ==
    IF a = <<>> /\ b = <<>> THEN 0
    ELSE IF a = <<>> THEN -1
    ELSE IF b = <<>> THEN 1
    ELSE IF Head(a) < Head(b) THEN -1
    ELSE IF Head(a) > Head(b) THEN 1
    ELSE compare(Tail(a), Tail(b))

StrLess(a, b)      == compare(a, b) < 0      \* operator<
\* operator> taken for operator>=
StrGreater_OrEqual(a, b) == compare(a, b) >= 0

StrGreater(a, b)   == compare(a, b) > 0      \* operator>
\* operator<= taken for operator<
StrLessEq_Strict(a, b) == compare(a, b) < 0

StrLessEq(a, b)    == compare(a, b) <= 0     \* operator<=

---------------------------------------------------------------------------
(* Vectors of bids *)

Bid(id, title, fund, amount) ==
    [bidId |-> id, title |-> title, fund |-> fund, amount |-> amount]

At(v, i) == v[i + 1]

InVector(v, i) == 0 <= i /\ i < Len(v)

Put(v, i, b) == [v EXCEPT ![i + 1] = b]

swap(v, i, j) == [v EXCEPT ![i + 1] = v[j + 1], ![j + 1] = v[i + 1]]

Min2(a, b) == IF a <= b THEN a ELSE b
Max2(a, b) == IF a >= b THEN a ELSE b

---------------------------------------------------------------------------
(* partition and quickSort *)

\* while (bids[left].title < pivotBid.title) left++;
\* the result is the index the scan stops at; an index outside the vector is
\* returned as it is, the read there having no defined value
RECURSIVE scanLeft(_, _, _)
scanLeft(v, left, pivot) ==
    IF ~InVector(v, left) THEN left
    ELSE IF StrLess(At(v, left).title, pivot) THEN scanLeft(v, left + 1, pivot)
    ELSE left

\* while (bids[right].title > pivotBid.title) right--;
RECURSIVE scanRight(_, _, _)
scanRight(v, right, pivot) ==
    IF ~InVector(v, right) THEN right
    ELSE IF StrGreater(At(v, right).title, pivot) THEN scanRight(v, right - 1, pivot)
    ELSE right

\* the while (left <= right) loop of partition; lo and hi are the least and the
\* greatest index read or written so far
RECURSIVE partitionLoop(_, _, _, _, _, _)
partitionLoop(v, left, right, pivot, lo, hi) ==
    IF ~(left <= right)
    THEN [bids |-> v, right |-> right, lo |-> lo, hi |-> hi, ub |-> FALSE]
    ELSE LET l == scanLeft(v, left, pivot)
             r == scanRight(v, right, pivot)
         IN  IF ~InVector(v, l)
             THEN [bids |-> v, right |-> right, lo |-> Min2(lo, left), hi |-> Max2(hi, l),
                   ub |-> TRUE]
             ELSE IF ~InVector(v, r)
             THEN [bids |-> v, right |-> r, lo |-> Min2(lo, r), hi |-> Max2(hi, Max2(l, right)),
                   ub |-> TRUE]
             ELSE IF l <= r
             THEN partitionLoop(swap(v, l, r), l + 1, r - 1, pivot,
                                Min2(lo, Min2(left, r)), Max2(hi, Max2(l, right)))
             ELSE partitionLoop(v, l, r, pivot,
                                Min2(lo, Min2(left, r)), Max2(hi, Max2(l, right)))

partition(v, start, end) ==
    LET pivotIndex == (start + end) \div 2
    IN  partitionLoop(v, start, end, At(v, pivotIndex).title, pivotIndex, pivotIndex)

\* One quickSort frame at stack depth `depth`.  A frame that does not fit the
\* stack overflows it; midOk records that every partition point so far lay in
\* begin..end-1.
RECURSIVE quickSortFrame(_, _, _, _)
quickSortFrame(v, begin, end, depth) ==
    IF depth > StackLimit
    THEN [bids |-> v, overflow |-> TRUE, ub |-> FALSE, midOk |-> TRUE]
    ELSE IF begin >= end
    THEN [bids |-> v, overflow |-> FALSE, ub |-> FALSE, midOk |-> TRUE]
    ELSE LET p   == partition(v, begin, end)
             mid == p.right
             ok  == begin <= mid /\ mid < end
         IN  IF p.ub
             THEN [bids |-> p.bids, overflow |-> FALSE, ub |-> TRUE, midOk |-> ok]
             ELSE LET low == quickSortFrame(p.bids, begin, mid, depth + 1)
                  IN  IF low.overflow \/ low.ub
                      THEN [low EXCEPT !.midOk = @ /\ ok]
                      ELSE LET high == quickSortFrame(low.bids, mid + 1, end, depth + 1)
                           IN  [high EXCEPT !.midOk = @ /\ low.midOk /\ ok]

quickSort(v, begin, end) == quickSortFrame(v, begin, end, 1)

---------------------------------------------------------------------------
(* selectionSort *)

\* for (j = i + 1; j < bids.size(); ++j) if (bids.at(j).title.compare(...) < 0) lowest = j
RECURSIVE findLowest(_, _, _)
findLowest(v, j, lowestAlphaTitle) ==
    IF ~(j < Len(v)) THEN lowestAlphaTitle
    ELSE IF compare(At(v, j).title, At(v, lowestAlphaTitle).title) < 0
    THEN findLowest(v, j + 1, j)
    ELSE findLowest(v, j + 1, lowestAlphaTitle)

RECURSIVE selectionLoop(_, _)
selectionLoop(v, i) ==
    IF ~(i < Len(v)) THEN v
    ELSE LET lowestAlphaTitle == findLowest(v, i + 1, i)
         IN  IF lowestAlphaTitle # i
             THEN selectionLoop(swap(v, i, lowestAlphaTitle), i + 1)
             ELSE selectionLoop(v, i + 1)

\* the outer loop started at the second position
selectionSort_FromSecond(v) == selectionLoop(v, 1)

selectionSort(v) == selectionLoop(v, 0)

---------------------------------------------------------------------------
(* merge and mergeSort *)

\* the three while loops of merge: i, j index leftArray and rightArray, k the vector
RECURSIVE mergeLoop(_, _, _, _, _, _)
mergeLoop(v, leftArray, rightArray, i, j, k) ==
    IF i < Len(leftArray) /\ j < Len(rightArray)
    THEN IF StrLessEq(At(leftArray, i).title, At(rightArray, j).title)
         THEN mergeLoop(Put(v, k, At(leftArray, i)), leftArray, rightArray, i + 1, j, k + 1)
         ELSE mergeLoop(Put(v, k, At(rightArray, j)), leftArray, rightArray, i, j + 1, k + 1)
    ELSE IF i < Len(leftArray)
    THEN mergeLoop(Put(v, k, At(leftArray, i)), leftArray, rightArray, i + 1, j, k + 1)
    ELSE IF j < Len(rightArray)
    THEN mergeLoop(Put(v, k, At(rightArray, j)), leftArray, rightArray, i, j + 1, k + 1)
    ELSE v

\* leftSize one short: the record at mid is left out of the merge
merge_ShortLeft(v, left, mid, right) ==
    LET leftSize   == mid - left
        rightSize  == right - mid
        leftArray  == [i \in 1..leftSize |-> At(v, left + i - 1)]
        rightArray == [i \in 1..rightSize |-> At(v, mid + 1 + i - 1)]
    IN  mergeLoop(v, leftArray, rightArray, 0, 0, left)

merge(v, left, mid, right) ==
    LET leftSize   == mid - left + 1
        rightSize  == right - mid
        leftArray  == [i \in 1..leftSize |-> At(v, left + i - 1)]
        rightArray == [i \in 1..rightSize |-> At(v, mid + 1 + i - 1)]
    IN  mergeLoop(v, leftArray, rightArray, 0, 0, left)

RECURSIVE mergeSort(_, _, _)
mergeSort(v, left, right) ==
    IF left < right
    THEN LET mid == left + (right - left) \div 2
         IN  merge(mergeSort(mergeSort(v, left, mid), mid + 1, right), left, mid, right)
    ELSE v

---------------------------------------------------------------------------
(* binarySearch *)

RECURSIVE binarySearchLoop(_, _, _, _)
binarySearchLoop(v, title, left, right) ==
    IF ~(left <= right) THEN -1
    ELSE LET mid == left + (right - left) \div 2
         IN  IF At(v, mid).title = title THEN mid
             ELSE IF StrLess(At(v, mid).title, title)
             THEN binarySearchLoop(v, title, mid + 1, right)
             ELSE binarySearchLoop(v, title, left, mid - 1)

\* the insertion point returned where the title is not found
RECURSIVE binarySearchLoop_ReturnsLeft(_, _, _, _)
binarySearchLoop_ReturnsLeft(v, title, left, right) ==
    IF ~(left <= right) THEN (IF left < Len(v) THEN left ELSE -1)
    ELSE LET mid == left + (right - left) \div 2
         IN  IF At(v, mid).title = title THEN mid
             ELSE IF StrLess(At(v, mid).title, title)
             THEN binarySearchLoop_ReturnsLeft(v, title, mid + 1, right)
             ELSE binarySearchLoop_ReturnsLeft(v, title, left, mid - 1)

binarySearch_ReturnsLeft(v, title) == binarySearchLoop_ReturnsLeft(v, title, 0, Len(v) - 1)

\* right started one short of the last index
binarySearch_ShortRight(v, title) == binarySearchLoop(v, title, 0, Len(v) - 2)

binarySearch(v, title) == binarySearchLoop(v, title, 0, Len(v) - 1)

---------------------------------------------------------------------------
(* strToDouble *)

IsSpace(c) == c \in {9, 10, 11, 12, 13, 32}
IsDigit(c) == c \in 48..57

\* one unit of the fixed-point amounts: texts of at most MaxAmtLen + 1 characters
\* have fewer fraction digits than this has zeros
Scale == 10 ^ (MaxAmtLen + 1)

RECURSIVE skipSpace(_)
skipSpace(s) == IF s # <<>> /\ IsSpace(Head(s)) THEN skipSpace(Tail(s)) ELSE s

\* the number of leading digits of s
RECURSIVE digitRun(_)
digitRun(s) == IF s # <<>> /\ IsDigit(Head(s)) THEN 1 + digitRun(Tail(s)) ELSE 0

\* the value of a digit string, read left to right
RECURSIVE digitsValue(_, _)
digitsValue(s, acc) ==
    IF s = <<>> THEN acc ELSE digitsValue(Tail(s), 10 * acc + (Head(s) - 48))

\* the value of a digit string after the decimal point, in units of 1/Scale
RECURSIVE fractionValue(_, _)
fractionValue(s, unit) ==
    IF s = <<>> \/ unit = 0 THEN 0
    ELSE (Head(s) - 48) * (unit \div 10) + fractionValue(Tail(s), unit \div 10)

\* atof on texts without exponent, hexadecimal, "inf" or "nan" forms: optional
\* white space, optional sign, digits, optional point and digits; the longest
\* such prefix is converted and a text with no digit gives 0
atof(str) ==
    LET t        == skipSpace(str)
        signed   == t # <<>> /\ Head(t) \in {43, 45}
        negative == t # <<>> /\ Head(t) = 45
        u        == IF signed THEN Tail(t) ELSE t
        n        == digitRun(u)
        intPart  == SubSeq(u, 1, n)
        rest     == SubSeq(u, n + 1, Len(u))
        hasPoint == rest # <<>> /\ Head(rest) = 46
        m        == IF hasPoint THEN digitRun(Tail(rest)) ELSE 0
        fracPart == IF hasPoint THEN SubSeq(rest, 2, m + 1) ELSE <<>>
        value    == digitsValue(intPart, 0) * Scale + fractionValue(fracPart, Scale)
    IN  IF n = 0 /\ m = 0 THEN 0
        ELSE IF negative THEN 0 - value ELSE value

\* the character is not stripped
strToDouble_NoStrip(str, ch) == atof(str)

\* str.erase(remove(str.begin(), str.end(), ch), str.end()); return atof(str.c_str());
strToDouble(str, ch) == atof(SelectSeq(str, LAMBDA c : c # ch))

---------------------------------------------------------------------------
(* loadBids *)

\* A CSV file as the parser hands it over: whether csv::Parser(csvPath) can be
\* constructed, and the rows, each a sequence of fields.  Reading a column a row
\* does not have raises csv::Error.
CsvFile(opens, rows) == [opens |-> opens, rows |-> rows]

Row(title, id, amount, fund) == <<title, id, <<>>, <<>>, amount, <<>>, <<>>, <<>>, fund>>

HasColumn(row, k) == k < Len(row)

\* the for loop inside the try block; a csv::Error leaves the loop for the catch
RECURSIVE loadLoop(_, _, _)
loadLoop(rows, i, acc) ==
    IF ~(i < Len(rows)) THEN [bids |-> acc, threw |-> FALSE, reported |-> FALSE]
    ELSE LET row == At(rows, i)
         IN  IF ~(HasColumn(row, 1) /\ HasColumn(row, 0) /\ HasColumn(row, 8) /\ HasColumn(row, 4))
             THEN [bids |-> acc, threw |-> FALSE, reported |-> TRUE]
             ELSE loadLoop(rows, i + 1,
                           Append(acc, Bid(At(row, 1), At(row, 0), At(row, 8),
                                           strToDouble(At(row, 4), 36))))

\* csv::Parser is constructed before the try block: its csv::Error leaves loadBids
loadBids(file) ==
    IF ~file.opens THEN [bids |-> <<>>, threw |-> TRUE, reported |-> FALSE]
    ELSE loadLoop(file.rows, 0, <<>>)

---------------------------------------------------------------------------
(* exportBenchmarkToCSV *)

Header == <<"Algorithm", "DataSize", "TimeMs">>

NoFile == [exists |-> FALSE, lines |-> <<>>]

\* the header written whether or not the file exists
exportBenchmarkToCSV_HeaderEachTime(f, algorithm, dataSize, timeMs) ==
    [exists |-> TRUE,
     lines |-> Append(Append(f.lines, Header), <<algorithm, dataSize, timeMs>>)]

exportBenchmarkToCSV(f, algorithm, dataSize, timeMs) ==
    LET fileExists == f.exists
        opened     == IF ~fileExists THEN Append(f.lines, Header) ELSE f.lines
    IN  [exists |-> TRUE, lines |-> Append(opened, <<algorithm, dataSize, timeMs>>)]

---------------------------------------------------------------------------
(* Properties of vectors used by the statements below *)

IsSorted(v) == \A i \in 1..Len(v) - 1 : compare(v[i].title, v[i + 1].title) <= 0

Occurrences(v, b) == Cardinality({i \in 1..Len(v) : v[i] = b})

IsPermutation(v, w) ==
    /\ Len(v) = Len(w)
    /\ \A i \in 1..Len(w) : Occurrences(v, w[i]) = Occurrences(w, w[i])

TitlesOf(v) == {v[i].title : i \in 1..Len(v)}

HasEqualTitles(v) == \E i, j \in 1..Len(v) : i < j /\ v[i].title = v[j].title

\* the records of w with equal titles stand in v in the order they have in w
KeepsOrderOfEquals(v, w) ==
    \A i, j \in 1..Len(w) :
        (i < j /\ w[i].title = w[j].title /\ w[i] # w[j])
            => \E a, b \in 1..Len(v) : a < b /\ v[a] = w[i] /\ v[b] = w[j]

NoCall == [fn |-> "none", arg |-> <<>>, ret |-> <<>>]

---------------------------------------------------------------------------
(* SpecSort: each sort, the search and partition applied once to every vector *)
(* within the bounds                                                         *)

\* the k-th record of an input carries the identifier "k"
TaggedBids(ts) == [k \in 1..Len(ts) |-> Bid(<<48 + k>>, ts[k], <<>>, 0)]

SortInputs == {TaggedBids(ts) : ts \in UNION {[1..n -> Titles] : n \in 0..MaxLen}}

InitSort ==
    /\ bids \in SortInputs
    /\ bidHashMap = <<>>
    /\ csvFile = NoFile
    /\ status = "running"
    /\ call = NoCall
    /\ hist = [file0 |-> NoFile, exports |-> <<>>]
    /\ lastLoad = <<>>
    /\ ops = 0

\* quickSort(bids, 0, bids.size() - 1)
CallQuickSort ==
    /\ status = "running" /\ call = NoCall
    /\ LET r == quickSort(bids, 0, Len(bids) - 1)
       IN  /\ bids' = r.bids
           /\ status' = IF r.overflow THEN "overflow"
                        ELSE IF r.ub THEN "undefined" ELSE "running"
           /\ call' = [fn |-> "quickSort", arg |-> bids, ret |-> r.midOk]
    /\ UNCHANGED <<bidHashMap, csvFile, hist, lastLoad, ops>>

\* mergeSort(bids, 0, bids.size() - 1)
CallMergeSort ==
    /\ status = "running" /\ call = NoCall
    /\ bids' = mergeSort(bids, 0, Len(bids) - 1)
    /\ call' = [fn |-> "mergeSort", arg |-> bids, ret |-> <<>>]
    /\ UNCHANGED <<bidHashMap, csvFile, status, hist, lastLoad, ops>>

\* selectionSort(bids)
CallSelectionSort ==
    /\ status = "running" /\ call = NoCall
    /\ bids' = selectionSort(bids)
    /\ call' = [fn |-> "selectionSort", arg |-> bids, ret |-> <<>>]
    /\ UNCHANGED <<bidHashMap, csvFile, status, hist, lastLoad, ops>>

\* binarySearch(bids, title)
CallBinarySearch(title) ==
    /\ status = "running" /\ call = NoCall
    /\ call' = [fn |-> "binarySearch", arg |-> [bids |-> bids, title |-> title],
                ret |-> binarySearch(bids, title)]
    /\ UNCHANGED <<bids, bidHashMap, csvFile, status, hist, lastLoad, ops>>

\* partition(bids, start, end)
CallPartition(start, end) ==
    /\ status = "running" /\ call = NoCall
    /\ LET p == partition(bids, start, end)
       IN  /\ bids' = p.bids
           /\ status' = IF p.ub THEN "undefined" ELSE "running"
           /\ call' = [fn |-> "partition", arg |-> [bids |-> bids, start |-> start, end |-> end],
                       ret |-> [right |-> p.right, lo |-> p.lo, hi |-> p.hi]]
    /\ UNCHANGED <<bidHashMap, csvFile, hist, lastLoad, ops>>

NextSort ==
    \/ CallQuickSort
    \/ CallMergeSort
    \/ CallSelectionSort
    \/ \E title \in Titles : CallBinarySearch(title)
    \/ \E start \in 0..Len(bids) - 1 : \E end \in start..Len(bids) - 1 : CallPartition(start, end)

SpecSort == InitSort /\ [][NextSort]_vars

---------------------------------------------------------------------------
(* Statements about the sorts and the search *)

\* C1: quickSort(bids, 0, n-1) finishes on every input, and leaves bids a
\* permutation of the input that is non-decreasing by title.
C1_QuickSortSorts ==
    call.fn = "quickSort" =>
        /\ status = "running"
        /\ IsPermutation(bids, call.arg)
        /\ IsSorted(bids)

\* C2: mergeSort(bids, 0, n-1) leaves bids a permutation of the input that is
\* non-decreasing by title, for every input, empty and duplicate titles included.
C2_MergeSortSorts ==
    call.fn = "mergeSort" =>
        /\ status = "running"
        /\ IsPermutation(bids, call.arg)
        /\ IsSorted(bids)

C2_Witness ==
    /\ call.fn = "mergeSort"
    /\ Len(call.arg) >= 3
    /\ HasEqualTitles(call.arg)
    /\ ~IsSorted(call.arg)
    /\ bids # call.arg

\* C3: selectionSort(bids) leaves bids a permutation of the input that is
\* non-decreasing by title, for every input, empty and duplicate titles included.
C3_SelectionSortSorts ==
    call.fn = "selectionSort" =>
        /\ status = "running"
        /\ IsPermutation(bids, call.arg)
        /\ IsSorted(bids)

C3_Witness ==
    /\ call.fn = "selectionSort"
    /\ Len(call.arg) >= 3
    /\ HasEqualTitles(call.arg)
    /\ ~IsSorted(call.arg)
    /\ bids # call.arg

\* C4: mergeSort is stable: of two input records with equal titles, the one
\* that came first in the input comes first in the output.
C4_MergeSortStable ==
    call.fn = "mergeSort" => KeepsOrderOfEquals(bids, call.arg)

C4_Witness ==
    /\ call.fn = "mergeSort"
    /\ HasEqualTitles(call.arg)
    /\ ~IsSorted(call.arg)
    /\ \E i, j \in 1..Len(bids) :
           i + 1 < j /\ call.arg[i].title = call.arg[j].title
                     /\ call.arg[i + 1].title # call.arg[i].title

\* C5: on a vector sorted ascending by title, binarySearch returns an index
\* whose record has the queried title when the title is present, and -1 when it
\* is absent (the empty vector included).
C5_BinarySearchOnSorted ==
    (call.fn = "binarySearch" /\ IsSorted(call.arg.bids)) =>
        IF call.arg.title \in TitlesOf(call.arg.bids)
        THEN /\ InVector(call.arg.bids, call.ret)
             /\ At(call.arg.bids, call.ret).title = call.arg.title
        ELSE call.ret = -1

C5_WitnessFound ==
    /\ call.fn = "binarySearch"
    /\ IsSorted(call.arg.bids)
    /\ Len(call.arg.bids) >= 3
    /\ call.ret >= 0

---------------------------------------------------------------------------
(* main(): the record store and the menu loop *)

EmptyMap == [k \in {} |-> k]

\* bidHashMap.insert({bid.bidId, bid}): an identifier already present keeps its bid
insert_KeepsFirst(map, bid) ==
    [k \in DOMAIN map \cup {bid.bidId} |-> IF k \in DOMAIN map THEN map[k] ELSE bid]

\* bidHashMap[bid.bidId] = bid
insert(map, bid) ==
    [k \in DOMAIN map \cup {bid.bidId} |-> IF k = bid.bidId THEN bid ELSE map[k]]

\* for (const auto& bid : bids) bidHashMap[bid.bidId] = bid;
RECURSIVE insertAll(_, _, _)
insertAll(map, v, i) ==
    IF ~(i < Len(v)) THEN map ELSE insertAll(insert(map, At(v, i)), v, i + 1)

\* the map refilled without bidHashMap.clear()
rebuild_NoClear(map, v) == insertAll(map, v, 0)

\* bidHashMap.clear(); followed by the loop over the loaded bids
rebuild(map, v) == insertAll(EmptyMap, v, 0)

\* bidHashMap.find(searchId)
find(map, id) ==
    IF id \in DOMAIN map THEN [msg |-> "found", bid |-> map[id]]
    ELSE [msg |-> "notFound", bid |-> <<>>]

\* the elapsed whole milliseconds the timers around a sort can report here
Elapsed == {0}

Running == status = "running" /\ ops < MaxOps

CanExport(n) == Len(hist.exports) + n <= MaxExports

DataLine(algorithm, dataSize, timeMs) == <<algorithm, dataSize, timeMs>>

\* case 1: load, clear and refill the map
LoadBids(file) ==
    /\ Running
    /\ LET r == loadBids(file)
       IN  IF r.threw
           THEN /\ status' = "terminated"
                /\ call' = [fn |-> "load", arg |-> file, ret |-> r]
                /\ UNCHANGED <<bids, bidHashMap, lastLoad>>
           ELSE /\ bids' = r.bids
                /\ bidHashMap' = rebuild(bidHashMap, r.bids)
                /\ lastLoad' = r.bids
                /\ call' = [fn |-> "load", arg |-> file, ret |-> r]
                /\ UNCHANGED status
    /\ ops' = ops + 1
    /\ UNCHANGED <<csvFile, hist>>

\* case 2: display every bid
DisplayAll ==
    /\ Running
    /\ call' = [fn |-> "display", arg |-> <<>>, ret |-> bids]
    /\ ops' = ops + 1
    /\ UNCHANGED <<bids, bidHashMap, csvFile, status, hist, lastLoad>>

\* the end of cases 3, 4 and 5: export the timing, then bids = sortedBids
FinishSort(algorithm, sortedBids, timeMs) ==
    /\ csvFile' = exportBenchmarkToCSV(csvFile, algorithm, Len(sortedBids), timeMs)
    /\ hist' = [hist EXCEPT !.exports = Append(@, DataLine(algorithm, Len(sortedBids), timeMs))]
    /\ bids' = sortedBids
    /\ call' = [fn |-> "sort", arg |-> algorithm, ret |-> bids]
    /\ ops' = ops + 1
    /\ UNCHANGED <<bidHashMap, status, lastLoad>>

\* case 3
SelectionSortAll ==
    /\ Running /\ CanExport(1)
    /\ \E timeMs \in Elapsed : FinishSort("SelectionSort", selectionSort(bids), timeMs)

\* case 4
QuickSortAll ==
    /\ Running /\ CanExport(1)
    /\ LET r == quickSort(bids, 0, Len(bids) - 1)
       IN  IF r.overflow \/ r.ub
           THEN /\ status' = IF r.overflow THEN "overflow" ELSE "undefined"
                /\ call' = [fn |-> "sort", arg |-> "QuickSort", ret |-> bids]
                /\ ops' = ops + 1
                /\ UNCHANGED <<bids, bidHashMap, csvFile, hist, lastLoad>>
           ELSE \E timeMs \in Elapsed : FinishSort("QuickSort", r.bids, timeMs)

\* case 5
MergeSortAll ==
    /\ Running /\ CanExport(1)
    /\ \E timeMs \in Elapsed :
           FinishSort("MergeSort", mergeSort(bids, 0, Len(bids) - 1), timeMs)

\* case 6: binary search by title
SearchByTitle(searchTitle) ==
    /\ Running
    /\ IF bids = <<>>
       THEN call' = [fn |-> "search", arg |-> searchTitle,
                     ret |-> [msg |-> "loadFirst", index |-> -1]]
       ELSE LET index == binarySearch(bids, searchTitle)
            IN  call' = [fn |-> "search", arg |-> searchTitle,
                         ret |-> [msg |-> IF index # -1 THEN "found" ELSE "notFound",
                                  index |-> index]]
    /\ ops' = ops + 1
    /\ UNCHANGED <<bids, bidHashMap, csvFile, status, hist, lastLoad>>

\* case 7: lookup by identifier
SearchById(searchId) ==
    /\ Running
    /\ IF DOMAIN bidHashMap = {}
       THEN call' = [fn |-> "lookup", arg |-> searchId,
                     ret |-> [msg |-> "loadFirst", bid |-> <<>>]]
       ELSE call' = [fn |-> "lookup", arg |-> searchId, ret |-> find(bidHashMap, searchId)]
    /\ ops' = ops + 1
    /\ UNCHANGED <<bids, bidHashMap, csvFile, status, hist, lastLoad>>

\* case 8: the three sorts on copies, each followed by its export
RunAllBenchmarks ==
    /\ Running /\ CanExport(3)
    /\ ops' = ops + 1
    /\ IF bids = <<>>
       THEN /\ call' = [fn |-> "benchmarks", arg |-> <<>>, ret |-> "loadFirst"]
            /\ UNCHANGED <<bids, bidHashMap, csvFile, status, hist, lastLoad>>
       ELSE \E t1, t2, t3 \in Elapsed :
              LET n      == Len(bids)
                  first  == exportBenchmarkToCSV(csvFile, "SelectionSort",
                                                 Len(selectionSort(bids)), t1)
                  r      == quickSort(bids, 0, n - 1)
                  second == exportBenchmarkToCSV(first, "QuickSort", Len(r.bids), t2)
                  third  == exportBenchmarkToCSV(second, "MergeSort",
                                                 Len(mergeSort(bids, 0, n - 1)), t3)
              IN  IF r.overflow \/ r.ub
                  THEN /\ status' = IF r.overflow THEN "overflow" ELSE "undefined"
                       /\ csvFile' = first
                       /\ hist' = [hist EXCEPT !.exports =
                                       Append(@, DataLine("SelectionSort", n, t1))]
                       /\ call' = [fn |-> "benchmarks", arg |-> <<>>, ret |-> "QuickSort"]
                       /\ UNCHANGED <<bids, bidHashMap, lastLoad>>
                  ELSE /\ csvFile' = third
                       /\ hist' = [hist EXCEPT !.exports =
                                       @ \o << DataLine("SelectionSort", n, t1),
                                               DataLine("QuickSort", n, t2),
                                               DataLine("MergeSort", n, t3) >>]
                       /\ call' = [fn |-> "benchmarks", arg |-> <<>>, ret |-> "complete"]
                       /\ UNCHANGED <<bids, bidHashMap, status, lastLoad>>

\* case 9
Exit ==
    /\ Running
    /\ status' = "exited"
    /\ call' = [fn |-> "exit", arg |-> <<>>, ret |-> <<>>]
    /\ ops' = ops + 1
    /\ UNCHANGED <<bids, bidHashMap, csvFile, hist, lastLoad>>

\* default: any other selection
Unrecognized ==
    /\ Running
    /\ call' = [fn |-> "unrecognized", arg |-> <<>>, ret |-> <<>>]
    /\ ops' = ops + 1
    /\ UNCHANGED <<bids, bidHashMap, csvFile, status, hist, lastLoad>>

---------------------------------------------------------------------------
(* The inputs of the menu loop *)

RECURSIVE SeqsUpTo(_, _)
SeqsUpTo(S, n) ==
    IF n = 0 THEN {<<>>}
    ELSE LET shorter == SeqsUpTo(S, n - 1)
         IN  shorter \cup {Append(q, x) : q \in {t \in shorter : Len(t) = n - 1}, x \in S}

\* a row that lacks the later columns: reading them raises csv::Error
ShortRow == << <<65>>, <<51>> >>

\* "a" bid "1", "A" bid "2", and "A" under the identifier "1" again
MenuRows ==
    { Row(<<97>>, <<49>>, <<36, 49, 46, 53>>, <<70>>),
      Row(<<65>>, <<50>>, <<49, 53>>, <<70>>),
      Row(<<65>>, <<49>>, <<36, 53>>, <<71>>) }

MenuFiles ==
    {CsvFile(FALSE, <<>>)} \cup {CsvFile(TRUE, rows) : rows \in SeqsUpTo(MenuRows, MaxRows)}

SearchIds == {<<49>>, <<50>>, <<51>>}

\* benchmark_results.csv before the program starts: absent, or left by an earlier run
StartFiles ==
    { NoFile, [exists |-> TRUE, lines |-> <<Header, DataLine("MergeSort", 1, 0)>>] }

Init ==
    /\ bids = <<>>
    /\ bidHashMap = EmptyMap
    /\ csvFile \in StartFiles
    /\ status = "running"
    /\ call = NoCall
    /\ hist = [file0 |-> csvFile, exports |-> <<>>]
    /\ lastLoad = <<>>
    /\ ops = 0

Next ==
    \/ \E file \in MenuFiles : LoadBids(file)
    \/ DisplayAll
    \/ SelectionSortAll
    \/ QuickSortAll
    \/ MergeSortAll
    \/ \E searchTitle \in Titles : SearchByTitle(searchTitle)
    \/ \E searchId \in SearchIds : SearchById(searchId)
    \/ RunAllBenchmarks
    \/ Exit
    \/ Unrecognized

Spec == Init /\ [][Next]_vars

---------------------------------------------------------------------------
(* SpecLoad: loadBids and strToDouble applied once to every input within the *)
(* bounds                                                                    *)

\* '$'  ' '  ','  '-'  '.'  '1'  '5'
AmountChars == {36, 32, 44, 45, 46, 49, 53}

AmountTexts == StringsUpTo(AmountChars, MaxAmtLen)

\* "$1.5", "15", "$$5", "-.5"
SampleAmounts == {<<36, 49, 46, 53>>, <<49, 53>>, <<36, 36, 53>>, <<45, 46, 53>>}

SampleRows ==
    {Row(<<97>>, <<49>>, a, <<70>>) : a \in SampleAmounts}
        \cup {Row(<<65>>, <<50>>, a, <<71>>) : a \in SampleAmounts}
        \cup {ShortRow}

\* files of several sample rows, one-row files with every amount text, and a
\* file the parser cannot open
LoadFiles ==
    {CsvFile(FALSE, <<>>)}
        \cup {CsvFile(TRUE, rows) : rows \in SeqsUpTo(SampleRows, MaxRows)}
        \cup {CsvFile(TRUE, <<Row(<<65>>, <<49>>, a, <<70>>)>>) : a \in AmountTexts}

InitLoad ==
    /\ bids = <<>>
    /\ bidHashMap = EmptyMap
    /\ csvFile = NoFile
    /\ status = "running"
    /\ call = NoCall
    /\ hist = [file0 |-> NoFile, exports |-> <<>>]
    /\ lastLoad = <<>>
    /\ ops = 0

\* bids = loadBids(csvPath)
CallLoadBids(file) ==
    /\ status = "running" /\ call = NoCall
    /\ LET r == loadBids(file)
       IN  /\ call' = [fn |-> "loadBids", arg |-> file, ret |-> r]
           /\ bids' = r.bids
           /\ lastLoad' = r.bids
           /\ status' = IF r.threw THEN "terminated" ELSE "running"
    /\ UNCHANGED <<bidHashMap, csvFile, hist, ops>>

\* strToDouble(str, '$')
CallStrToDouble(str) ==
    /\ status = "running" /\ call = NoCall
    /\ call' = [fn |-> "strToDouble", arg |-> str, ret |-> strToDouble(str, 36)]
    /\ UNCHANGED <<bids, bidHashMap, csvFile, status, hist, lastLoad, ops>>

NextLoad ==
    \/ \E file \in LoadFiles : CallLoadBids(file)
    \/ \E str \in AmountTexts : CallStrToDouble(str)

SpecLoad == InitLoad /\ [][NextLoad]_vars

---------------------------------------------------------------------------
(* SpecExport: exportBenchmarkToCSV called again and again on one results file *)

Algorithms == {"SelectionSort", "QuickSort", "MergeSort"}

ExportSizes == {0, MaxLen}

ExportTimes == {0, 7}

ExportStartFiles ==
    { NoFile,
      [exists |-> TRUE, lines |-> <<>>],
      [exists |-> TRUE, lines |-> <<Header>>],
      [exists |-> TRUE, lines |-> <<Header, DataLine("MergeSort", 1, 0)>>] }

InitExport ==
    /\ bids = <<>>
    /\ bidHashMap = EmptyMap
    /\ csvFile \in ExportStartFiles
    /\ status = "running"
    /\ call = NoCall
    /\ hist = [file0 |-> csvFile, exports |-> <<>>]
    /\ lastLoad = <<>>
    /\ ops = 0

\* exportBenchmarkToCSV("benchmark_results.csv", algorithm, dataSize, timeMs)
CallExport(algorithm, dataSize, timeMs) ==
    /\ status = "running" /\ CanExport(1)
    /\ csvFile' = exportBenchmarkToCSV(csvFile, algorithm, dataSize, timeMs)
    /\ hist' = [hist EXCEPT !.exports = Append(@, DataLine(algorithm, dataSize, timeMs))]
    /\ call' = [fn |-> "exportBenchmarkToCSV", arg |-> DataLine(algorithm, dataSize, timeMs),
                ret |-> <<>>]
    /\ UNCHANGED <<bids, bidHashMap, status, lastLoad, ops>>

NextExport ==
    \E algorithm \in Algorithms, dataSize \in ExportSizes, timeMs \in ExportTimes :
        CallExport(algorithm, dataSize, timeMs)

SpecExport == InitExport /\ [][NextExport]_vars

---------------------------------------------------------------------------
(* Statements about the record store, the loader and the export *)

IdsOf(v) == {v[i].bidId : i \in 1..Len(v)}

RecordsOf(v) == {v[i] : i \in 1..Len(v)}

ValuesOf(map) == {map[k] : k \in DOMAIN map}

\* the last record of v that carries the identifier
LastWithId(v, id) ==
    v[CHOOSE i \in 1..Len(v) :
          v[i].bidId = id /\ \A j \in i + 1..Len(v) : v[j].bidId # id]

DistinctIds(v) == \A i, j \in 1..Len(v) : i # j => v[i].bidId # v[j].bidId

\* C6: after a load and any sorts, searches and benchmarks since, the lookup of
\* an identifier of the last load gives the record loaded under it (the last
\* such row where the file repeats an identifier), and the lookup of any other
\* identifier gives no record.
C6_LookupAfterLoad ==
    /\ \A id \in SearchIds :
           IF id \in IdsOf(lastLoad)
           THEN find(bidHashMap, id) = [msg |-> "found", bid |-> LastWithId(lastLoad, id)]
           ELSE find(bidHashMap, id).msg = "notFound"
    /\ call.fn = "lookup" =>
           IF call.arg \in IdsOf(lastLoad)
           THEN call.ret = [msg |-> "found", bid |-> LastWithId(lastLoad, call.arg)]
           ELSE call.ret.msg \in {"notFound", "loadFirst"}

C6_Witness ==
    /\ call.fn = "lookup"
    /\ call.ret.msg = "found"
    /\ bids # lastLoad
    /\ hist.exports # <<>>

C8_HeaderOnceThenRows ==
    Len(hist.exports) >= 1 =>
        /\ csvFile.exists
        /\ csvFile.lines =
               (IF hist.file0.exists THEN hist.file0.lines ELSE <<Header>>) \o hist.exports

C8_Witness ==
    /\ call.fn = "exportBenchmarkToCSV"
    /\ ~hist.file0.exists
    /\ Len(hist.exports) = 2
    /\ hist.exports[1] # hist.exports[2]

\* a row with the nine columns whose amount is a decimal number, with at most
\* one currency symbol in front
WellFormedAmount(s) ==
    LET body == IF s # <<>> /\ Head(s) = 36 THEN Tail(s) ELSE s
        dots == {i \in 1..Len(body) : body[i] = 46}
    IN  /\ body # <<>>
        /\ \A i \in 1..Len(body) : IsDigit(body[i]) \/ body[i] = 46
        /\ Cardinality(dots) <= 1
        /\ IsDigit(body[1]) /\ IsDigit(body[Len(body)])

WellFormedRow(row) == Len(row) >= 9 /\ WellFormedAmount(row[5])

RECURSIVE Pow10(_)
Pow10(n) == IF n = 0 THEN 1 ELSE 10 * Pow10(n - 1)

\* the number a decimal text denotes, digit by digit from the place of its point
RECURSIVE PlaceSum(_, _, _)
PlaceSum(body, point, i) ==
    IF i > Len(body) THEN 0
    ELSE (IF i < point THEN (body[i] - 48) * Scale * Pow10(point - 1 - i)
          ELSE IF i > point THEN ((body[i] - 48) * Scale) \div Pow10(i - point)
          ELSE 0) + PlaceSum(body, point, i + 1)

NumericValue(s) ==
    LET body  == IF s # <<>> /\ Head(s) = 36 THEN Tail(s) ELSE s
        dots  == {i \in 1..Len(body) : body[i] = 46}
        point == IF dots = {} THEN Len(body) + 1 ELSE CHOOSE i \in dots : TRUE
    IN  PlaceSum(body, point, 1)

\* C9: loading N well-formed rows gives N records in row order, record k with
\* title, identifier and fund from columns 0, 1 and 8 of row k as they stand
\* and the amount the number column 4 denotes without its currency symbol.
C9_LoadMapsColumns ==
    (/\ call.fn = "loadBids"
     /\ call.arg.opens
     /\ \A k \in 1..Len(call.arg.rows) : WellFormedRow(call.arg.rows[k])) =>
        /\ ~call.ret.threw
        /\ bids = call.ret.bids
        /\ Len(bids) = Len(call.arg.rows)
        /\ \A k \in 1..Len(bids) :
               LET row == call.arg.rows[k]
               IN  bids[k] = Bid(row[2], row[1], row[9], NumericValue(row[5]))

C9_Witness ==
    /\ call.fn = "loadBids"
    /\ call.arg.opens
    /\ Len(call.arg.rows) = 2
    /\ \A k \in 1..2 : WellFormedRow(call.arg.rows[k])
    /\ call.arg.rows[1] # call.arg.rows[2]
    /\ Head(call.arg.rows[1][5]) = 36
    /\ bids[1].amount > 0 /\ bids[1].amount % Scale # 0

\* the rows in front of the first row that cannot be read
RECURSIVE ReadableRows(_)
ReadableRows(rows) ==
    IF rows = <<>> \/ Len(Head(rows)) < 9 THEN <<>>
    ELSE <<Head(rows)>> \o ReadableRows(Tail(rows))

\* C10: when the file cannot be opened or a row cannot be read, loadBids
\* reports it and returns the records read before the failure, and the menu
\* loop goes on.
C10_LoadFailureContinues ==
    (/\ call.fn = "load"
     /\ (~call.arg.opens \/ Len(ReadableRows(call.arg.rows)) < Len(call.arg.rows))) =>
        /\ status = "running"
        /\ Len(bids) = Len(ReadableRows(call.arg.rows))

---------------------------------------------------------------------------
(* Statements about parsing, the partition point, the sort options and the *)
(* search on any vector                                                    *)

\* a text with a character that is no digit, point, currency symbol or blank,
\* or with no digit at all
MalformedNumber(s) ==
    \/ \E i \in 1..Len(s) : ~IsDigit(s[i]) /\ s[i] \notin {32, 36, 46}
    \/ \A i \in 1..Len(s) : ~IsDigit(s[i])

\* C11: strToDouble gives a non-negative amount for every text, and zero for
\* every malformed numeric text.
C11_AmountNonNegative ==
    call.fn = "strToDouble" =>
        /\ call.ret >= 0
        /\ MalformedNumber(call.arg) => call.ret = 0

\* C12: in every call quickSort(bids, begin, end) with begin < end the value
\* mid returned by partition satisfies begin <= mid < end, both recursive calls
\* are on smaller ranges, and quickSort runs to completion.
C12_PartitionPointInRange ==
    call.fn = "quickSort" => (call.ret /\ status # "overflow")

\* C13: menu options 3, 4 and 5 sort a copy: when the option is done the
\* store's vector still has the order it had before.
C13_SortKeepsStoreOrder ==
    (call.fn = "sort" /\ status = "running") => bids = call.ret

\* C14: on every vector, sorted or not, binarySearch returns -1 or an index
\* within the vector whose record has the queried title.
C14_BinarySearchNeverWrong ==
    call.fn = "binarySearch" =>
        \/ call.ret = -1
        \/ /\ InVector(call.arg.bids, call.ret)
           /\ At(call.arg.bids, call.ret).title = call.arg.title

\* an unsorted vector that holds the title, and the search misses it
C14_Witness ==
    /\ call.fn = "binarySearch"
    /\ ~IsSorted(call.arg.bids)
    /\ call.arg.title \in TitlesOf(call.arg.bids)
    /\ call.ret = -1

\* C15: every index partition(bids, start, end) reads or swaps lies within
\* start..end, whatever the vector holds.
C15_PartitionStaysInRange ==
    call.fn = "partition" =>
        /\ status # "undefined"
        /\ call.arg.start <= call.ret.lo
        /\ call.ret.hi <= call.arg.end

\* a range strictly inside the vector, with a swap made
C15_Witness ==
    /\ call.fn = "partition"
    /\ call.arg.start > 0
    /\ call.arg.end < Len(call.arg.bids) - 1
    /\ call.arg.start < call.arg.end
    /\ bids # call.arg.bids

=============================================================================
